---- MODULE Spec2Model ----
(***************************************************************************)
(* Donna virtual assistant back end: the /chat and /transcript handlers    *)
(* of Donna-Backend_ver 3/index_text.js (Donna-Backend/index.js has the    *)
(* same /chat handler).  A handler is an async function: it runs without   *)
(* interruption up to its next await, so there is one action per awaited   *)
(* operation that settles, and the action runs the handler up to the next  *)
(* await (or to the response).  The scratch directory audios/ is shared by *)
(* all requests of the process.                                            *)
(***************************************************************************)
EXTENDS Integers, Sequences, FiniteSets, TLC

(***************************************************************************)
(* Bounds of the environment.                                              *)
(***************************************************************************)
\* length of the longest list the chat-completion collaborator returns
MaxLen == 5

\* "With a maximum of 3 messages": the turn count the system prompt asks for
MaxMessages == 3

\* The connections on which requests arrive: a connection carries one
\* request at a time and the next one when that is finished.  Two of them:
\* a request and one that can be in flight at the same time.
Reqs == {1, 2}

(***************************************************************************)
(* JavaScript values.  Every value is a record with a type tag t; a string *)
(* is the sequence of its characters.                                      *)
(***************************************************************************)
Undefined == [t |-> "undefined"]
Null == [t |-> "null"]
Str(chars) == [t |-> "string", s |-> chars]
Num(n) == [t |-> "number", n |-> n]
Arr(items) == [t |-> "array", items |-> items]
\* the bytes of an audio file in base64, and the parsed cue list of a viseme
\* file; `of` is the file content they were computed from (see Files below)
Base64(content) == [t |-> "string", base64 |-> content]
Cues(content) == [t |-> "object", mouthCues |-> content]
\* an object with the properties the handlers read or write
Obj(m, tx, fe, an) ==
  [t |-> "object", messages |-> m, text |-> tx, facialExpression |-> fe,
   animation |-> an, audio |-> Undefined, lipsync |-> Undefined]

IsTurnObject(v) == v.t = "object" /\ "text" \in DOMAIN v

\* an empty list taken as false
TruthyButEmptyList(v) ==
  CASE v.t = "undefined" -> FALSE
    [] v.t = "null" -> FALSE
    [] v.t = "number" -> v.n # 0
    [] v.t = "string" -> IF "s" \in DOMAIN v THEN Len(v.s) > 0 ELSE TRUE
    [] v.t = "array" -> Len(v.items) > 0
    [] OTHER -> TRUE

\* ToBoolean(v), as in `if (messages.messages)`
Truthy(v) ==
  CASE v.t = "undefined" -> FALSE
    [] v.t = "null" -> FALSE
    [] v.t = "number" -> v.n # 0
    [] v.t = "string" -> IF "s" \in DOMAIN v THEN Len(v.s) > 0 ELSE TRUE
    [] OTHER -> TRUE

\* reading a property of null or undefined throws a TypeError
ThrowsOnRead(v) == v.t \in {"undefined", "null"}

\* v.length
LengthOf(v) ==
  CASE v.t = "array" -> Num(Len(v.items))
    [] v.t = "string" /\ "s" \in DOMAIN v -> Num(Len(v.s))
    [] OTHER -> Undefined

\* v.messages
MessagesOf(v) == IF IsTurnObject(v) THEN v.messages ELSE Undefined

\* v.text
TextOf(v) == IF IsTurnObject(v) THEN v.text ELSE Undefined

\* v[i], for 0 <= i < v.length
ElementAt(v, i) ==
  CASE v.t = "array" -> v.items[i + 1]
    [] v.t = "string" /\ "s" \in DOMAIN v -> Str(<<v.s[i + 1]>>)
    [] OTHER -> Undefined

\* i < v.length: a comparison with undefined (NaN) is false
LessThanLength(i, v) == LengthOf(v).t = "number" /\ i < LengthOf(v).n

\* v.p = x: the files are ES modules (strict mode), where creating a
\* property on a primitive throws a TypeError
ThrowsOnWrite(v) == ~ IsTurnObject(v)


(***************************************************************************)
(* The enumerations the system prompt of /chat gives to the model.         *)
(***************************************************************************)
FacialExpressions ==
  { Str(<<"s", "m", "i", "l", "e">>),
    Str(<<"s", "a", "d">>),
    Str(<<"a", "n", "g", "r", "y">>),
    Str(<<"s", "u", "r", "p", "r", "i", "s", "e", "d">>),
    Str(<<"f", "u", "n", "n", "y", "F", "a", "c", "e">>),
    Str(<<"d", "e", "f", "a", "u", "l", "t">>) }

Animations ==
  { Str(<<"T", "a", "l", "k", "i", "n", "g", "_", "0">>),
    Str(<<"T", "a", "l", "k", "i", "n", "g", "_", "1">>),
    Str(<<"T", "a", "l", "k", "i", "n", "g", "_", "2">>),
    Str(<<"C", "r", "y", "i", "n", "g">>),
    Str(<<"L", "a", "u", "g", "h", "i", "n", "g">>),
    Str(<<"R", "u", "m", "b", "a">>),
    Str(<<"I", "d", "l", "e">>),
    Str(<<"T", "e", "r", "r", "i", "f", "i", "e", "d">>),
    Str(<<"A", "n", "g", "r", "y">>) }

(***************************************************************************)
(* What the collaborators return in the model.                             *)
(***************************************************************************)
Hi == Str(<<"h", "i">>)
Bye == Str(<<"b", "y", "e">>)
Smile == Str(<<"s", "m", "i", "l", "e">>)
Sad == Str(<<"s", "a", "d">>)
Wink == Str(<<"w", "i", "n", "k">>)
Talking0 == Str(<<"T", "a", "l", "k", "i", "n", "g", "_", "0">>)
Idle == Str(<<"I", "d", "l", "e">>)
Empty == Str(<<>>)

TurnHi == Obj(Undefined, Hi, Smile, Talking0)
TurnBye == Obj(Undefined, Bye, Sad, Idle)
\* a facial expression outside the enumeration, no animation
TurnWink == Obj(Undefined, Hi, Wink, Undefined)
\* an empty text
TurnEmpty == Obj(Undefined, Empty, Smile, Idle)

Wrap(v) == Obj(v, Undefined, Undefined, Undefined)

\* the content of a chat completion: a JSON text, given by the value it
\* parses to, or a text that is not JSON (cut at max_tokens)
Json(v) == [json |-> TRUE, value |-> v]
NotJson == [json |-> FALSE, value |-> Undefined]

LongList == Arr([j \in 1..MaxLen |-> IF j % 2 = 1 THEN TurnHi ELSE TurnBye])

ShortLists == { Arr(<<>>), Arr(<<TurnHi>>), Arr(<<TurnBye, TurnHi>>) }

\* completions drawn when requests overlap
ShortContents ==
  { Json(Arr(<<TurnHi>>)), Json(Wrap(Arr(<<TurnBye, TurnHi>>))) }

\* completions drawn when requests follow one another
AllContents ==
  { Json(l) : l \in ShortLists } \cup { Json(Wrap(l)) : l \in ShortLists } \cup
  { Json(LongList), Json(Arr(<<TurnWink>>)), Json(Arr(<<TurnEmpty>>)),
    Json(Arr(<<Null>>)), Json(TurnHi), Json(Wrap(TurnHi)), Json(Wrap(Hi)),
    Json(Wrap(Num(5))), Json(Wrap(Num(0))), Json(Null), NotJson }

\* the body of a transcription answer that is OK: the transcript, or a body
\* without results
DeepgramBodies == { Hi, Empty, Undefined }

\* the status of a transcription answer
DeepgramStatuses == { 200, 401 }


(***************************************************************************)
(* State.                                                                  *)
(***************************************************************************)
VARIABLES
  kind,        \* kind[r]: the route of the request on connection r, "none" before the first
  pc,          \* pc[r]: the operation the handler of that request awaits
  parsed,      \* parsed[r]: what JSON.parse returned (/chat), or the transcript (/transcript)
  messages,    \* messages[r]: the handler's variable messages
  i,           \* i[r]: the loop variable
  responses,   \* responses[r]: the responses sent on res, in order
  log,         \* log[r]: the collaborator calls of the request: started, resolved, rejected
  files,       \* the directory audios/
  alive,       \* the server process runs
  overlap,     \* the clients send a request while another is in flight
  answer,      \* answer[r]: deepgramResponse.status, 0 before the answer
  artifact,    \* the bytes of an audio file read by audioFileToBase64
  transport,   \* the base64 text made of them, <<>> before it is made
  received,    \* the bytes the receiver decodes from the text
  codec,       \* "file", "encoded", "decoded": the progress of that round trip
  queue,       \* ChatProvider: the state messages
  currentMessage, \* ChatProvider: the state message
  loading,     \* ChatProvider: the state loading
  effectDue,   \* ChatProvider: messages changed and the effect has not run yet
  calls,       \* calls[c]: the position of call c of chat()
  sentTurns,   \* the turns of the responses, in the order they were appended
  playedTurns, \* the turns removed by onMessagePlayed, in order
  ragSend,     \* UI: sendMessage awaits the answer of /rag
  enableFileOptions, \* UI: the state enableFileOptions
  isUploading, \* UI: the state isUploading; handleSubmit awaits /transcript
  listening,   \* UI: the state listening
  recognition, \* UI: the variable recognition of the last render, 0 for null
  sessions,    \* sessions[s]: the SpeechRecognition object s and the variables
               \* isNoting, noteContent its handlers close over
  inputValue,  \* input.current.value
  noteFile,    \* the content of the note.txt downloaded last
  child,       \* the shell tool started by exec: its command, exit code, output
  promise,     \* the promise execCommand returned for it
  lipSync      \* the call of lipSyncMessage: where it is, its message, the exits it saw

serverVars == <<kind, pc, parsed, messages, i, responses, log, files, alive, overlap, answer>>
codecVars == <<artifact, transport, received, codec>>
hookVars == <<queue, currentMessage, loading, effectDue, calls, sentTurns, playedTurns>>
pageVars == <<ragSend, enableFileOptions, isUploading>>
uiVars == <<hookVars, pageVars>>

voiceVars == <<listening, recognition, sessions, inputValue, noteFile>>
execVars == <<child, promise, lipSync>>

vars == <<serverVars, codecVars, uiVars, voiceVars, execVars>>

\* contents of the files of audios/
Absent == [fmt |-> "absent"]
\* what the synthesizer writes for the text of turn k of the request on r
Mp3(r, k, text) == [fmt |-> "mp3", req |-> r, turn |-> k, text |-> text]
\* the same of a request that is finished and whose connection carries a
\* later request: req 0, whatever its text was
Earlier(c, r) ==
  CASE c.fmt = "mp3" -> IF c.req = r THEN [c EXCEPT !.req = 0, !.text = Undefined] ELSE c
    [] c.fmt = "wav" ->
         IF c.from.req = r
         THEN [c EXCEPT !.from.req = 0, !.from.text = Undefined] ELSE c
    [] c.fmt = "json" ->
         IF c.from.from.req = r
         THEN [c EXCEPT !.from.from.req = 0, !.from.from.text = Undefined] ELSE c
    [] OTHER -> c
\* what ffmpeg writes when it reads the mp3 content c
Wav(c) == [fmt |-> "wav", from |-> c]
\* what rhubarb writes when it reads the wav content c
Visemes(c) == [fmt |-> "json", from |-> c]

Exts == {"mp3", "wav", "json"}

\* the files of the next index
FileNameNext(r, k, ext) == <<(k + 1) % MaxLen, ext>>

\* one file name for all turns
FileNameShared(r, k, ext) == <<0, ext>>

\* `audios/message_${i}.<ext>`
FileName(r, k, ext) == <<k, ext>>

FileNames == { <<k, ext>> : k \in 0..(MaxLen - 1), ext \in Exts }

\* the viseme extraction before the transcoding
StagesSwapped == <<"tts", "rhubarb", "ffmpeg", "readAudio", "readJson">>

\* the awaited operations of the enrichment of one turn, in the order of the
\* loop body and of lipSyncMessage
Stages == <<"tts", "ffmpeg", "rhubarb", "readAudio", "readJson">>

StageNo(s) == CHOOSE n \in 1..Len(Stages) : Stages[n] = s

Event(k, stage, ev, arg) == [turn |-> k, stage |-> stage, ev |-> ev, arg |-> arg]

Started(r, stage, arg) == Event(i[r], stage, "start", arg)
Resolved(r) == Event(i[r], pc[r], "ok", Undefined)
Rejected(r) == Event(i[r], pc[r], "fail", Undefined)
\* an exception of the handler's own code (SyntaxError, TypeError)
Thrown(r, k) == Event(k, "handler", "fail", Undefined)

Sent(status, body) == [status |-> status, body |-> body]

InFlight == { r \in Reqs : pc[r] \notin {"idle", "done", "rejected"} }

\* calls of chat() during one run of the front end
MaxCalls == 2

Calls == 1..MaxCalls

\* no connection carries a request, audios/ is empty
ServerStarts ==
  /\ kind = [r \in Reqs |-> "none"]
  /\ pc = [r \in Reqs |-> "idle"]
  /\ parsed = [r \in Reqs |-> Undefined]
  /\ messages = [r \in Reqs |-> Undefined]
  /\ i = [r \in Reqs |-> 0]
  /\ responses = [r \in Reqs |-> <<>>]
  /\ log = [r \in Reqs |-> <<>>]
  /\ files = [f \in FileNames |-> Absent]
  /\ answer = [r \in Reqs |-> 0]
  /\ alive = TRUE

\* no audio file is being encoded
CodecOff ==
  /\ artifact = <<>>
  /\ transport = <<>>
  /\ received = <<>>
  /\ codec = "off"

\* ChatProvider is mounted: useState([]), useState(), useState(false); the
\* effect of the first render is due
ProviderMounts ==
  /\ queue = <<>>
  /\ currentMessage = Undefined
  /\ loading = FALSE
  /\ effectDue = TRUE
  /\ calls = [c \in Calls |-> "idle"]
  /\ sentTurns = <<>>
  /\ playedTurns = <<>>

\* UI is mounted: useState(false) of enableFileOptions and isUploading
UIMounts ==
  /\ ragSend = FALSE
  /\ enableFileOptions = FALSE
  /\ isUploading = FALSE

\* the objects of speech recognition the model follows at a time
Recs == {1, 2}

\* no SpeechRecognition object in this place
NoSession == [status |-> "none", isNoting |-> FALSE, noteContent |-> <<>>, results |-> 0]

\* UI is mounted: useState(false) of listening, let recognition = null
VoiceOff ==
  /\ listening = FALSE
  /\ recognition = 0
  /\ sessions = [s \in Recs |-> NoSession]
  /\ inputValue = <<>>
  /\ noteFile = Undefined

\* a promise that is not settled
Pending == [state |-> "pending", value |-> Undefined]

\* lipSyncMessage is not running
ExecOff ==
  /\ child = [command |-> "none", status |-> "none", code |-> 0, stdout |-> Empty]
  /\ promise = Pending
  /\ lipSync = [at |-> "idle", message |-> 0, exits |-> <<>>]

Init ==
  /\ ServerStarts
  /\ overlap = FALSE
  /\ CodecOff
  /\ ProviderMounts
  /\ UIMounts
  /\ VoiceOff
  /\ ExecOff

InitOverlap ==
  /\ ServerStarts
  /\ overlap = TRUE
  /\ CodecOff
  /\ ProviderMounts
  /\ UIMounts
  /\ VoiceOff
  /\ ExecOff

(***************************************************************************)
(* The handler of r goes on: its position, variables, calls and responses. *)
(***************************************************************************)
Goes(r, p, m, idx, evs, out) ==
  /\ pc' = [pc EXCEPT ![r] = p]
  /\ messages' = [messages EXCEPT ![r] = m]
  /\ i' = [i EXCEPT ![r] = idx]
  /\ log' = [log EXCEPT ![r] = @ \o evs]
  /\ responses' = [responses EXCEPT ![r] = @ \o out]

\* a failure answered with the turns as they are
FailsWithPartial(r, m, idx, evs) ==
  /\ Goes(r, "done", m, idx, evs, << Sent(200, [messages |-> m]) >>)
  /\ alive' = alive

\* The handler of r throws, or an awaited promise rejects.  /transcript
\* catches it and answers 500.  /chat has no try: the promise of the async
\* handler rejects, no response is sent, and the unhandled rejection either
\* is only reported or terminates the process (as Node does by default
\* from version 15 on).
Fails(r, m, idx, evs) ==
  IF kind[r] = "transcript"
  THEN /\ Goes(r, "done", m, idx, evs,
               << Sent(500, [error |-> "Internal server error"]) >>)
       /\ alive' = alive
  ELSE /\ Goes(r, "rejected", m, idx, evs, <<>>)
       /\ alive' \in BOOLEAN

\* every other turn
NextIndexSkips(idx) == idx + 2

\* the index of the turn enriched after turn idx
NextIndex(idx) == idx + 1

\* for (...; i < messages.length; ...) { ... textToSpeech(...) } res.send({ messages })
\* from the loop test on, with messages = m and i = idx
Loop(r, m, idx, evs) ==
  IF LessThanLength(idx, m)
  THEN LET message == ElementAt(m, idx) IN
       IF ThrowsOnRead(message)
       THEN Fails(r, m, idx, evs \o << Thrown(r, idx) >>)
       ELSE /\ Goes(r, Stages[1], m, idx,
                    evs \o << Event(idx, Stages[1], "start", TextOf(message)) >>, <<>>)
            /\ alive' = alive
  ELSE /\ Goes(r, "done", m, idx, evs, << Sent(200, [messages |-> m]) >>)
       /\ alive' = alive


(***************************************************************************)
(* A request arrives on a connection that carries none: on connection 1,   *)
(* or on connection 2 when the clients let requests overlap.               *)
(***************************************************************************)
MayArrive(r) ==
  /\ alive
  /\ r \notin InFlight
  /\ r = 1 \/ (overlap /\ pc[1] # "idle")

\* the handler of a new request starts on r, awaits p or has sent out
Arrives(r, route, p, out) ==
  /\ kind' = [kind EXCEPT ![r] = route]
  /\ pc' = [pc EXCEPT ![r] = p]
  /\ parsed' = [parsed EXCEPT ![r] = Undefined]
  /\ messages' = [messages EXCEPT ![r] = Undefined]
  /\ i' = [i EXCEPT ![r] = 0]
  /\ log' = [log EXCEPT ![r] = <<>>]
  /\ responses' = [responses EXCEPT ![r] = out]
  /\ files' = [f \in FileNames |-> Earlier(files[f], r)]
  /\ answer' = [answer EXCEPT ![r] = 0]
  /\ UNCHANGED <<alive, overlap, codecVars, uiVars, voiceVars, execVars>>

\* JSON.parse(text)
JSONParse(text) == IF text.json THEN [threw |-> FALSE, value |-> text.value]
                   ELSE [threw |-> TRUE, value |-> Undefined]

\* the list without its first element
UnwrapDropsFirst(v) ==
  LET l == IF Truthy(MessagesOf(v)) THEN MessagesOf(v) ELSE v IN
  IF l.t = "array" /\ Len(l.items) > 0 THEN Arr(Tail(l.items)) ELSE l

\* if (messages.messages) { messages = messages.messages; }
Unwrap(v) == IF Truthy(MessagesOf(v)) THEN MessagesOf(v) ELSE v

\* messages[idx].<prop> = val, for an element that is an object
SetProp(m, idx, prop, val) ==
  IF prop = "audio" THEN [m EXCEPT !.items[idx + 1].audio = val]
  ELSE [m EXCEPT !.items[idx + 1].lipsync = val]

\* the operation awaited after stage s of a turn
After(s) == Stages[StageNo(s) + 1]

(***************************************************************************)
(* POST /chat                                                              *)
(***************************************************************************)
\* the request arrives; the handler calls the chat-completion collaborator
ChatArrives(r) ==
  /\ MayArrive(r)
  /\ Arrives(r, "chat", "completion", <<>>)

\* the chat-completion call rejects
CompletionRejects(r) ==
  /\ alive /\ pc[r] = "completion"
  /\ Fails(r, messages[r], i[r], << Event(0, "completion", "fail", Undefined) >>)
  /\ UNCHANGED <<kind, answer, parsed, files, overlap, codecVars, uiVars, voiceVars, execVars>>

\* the chat-completion call resolves with a content: parse, unwrap, and
\* enter the loop
CompletionResolves(r, content) ==
  /\ alive /\ pc[r] = "completion"
  /\ LET p == JSONParse(content) IN
     IF p.threw \/ ThrowsOnRead(p.value)
     THEN /\ Fails(r, messages[r], i[r], << Thrown(r, 0) >>)
          /\ UNCHANGED parsed
     ELSE /\ parsed' = [parsed EXCEPT ![r] = p.value]
          /\ Loop(r, Unwrap(p.value), 0, <<>>)
  /\ UNCHANGED <<kind, answer, files, overlap, codecVars, uiVars, voiceVars, execVars>>

(***************************************************************************)
(* POST /transcript                                                        *)
(***************************************************************************)
\* the request arrives, with or without an uploaded file
TranscriptArrives(r, hasFile) ==
  /\ MayArrive(r)
  /\ IF hasFile
     THEN Arrives(r, "transcript", "fetch", <<>>)
     ELSE Arrives(r, "transcript", "done",
                  << Sent(400, [error |-> "No file uploaded"]) >>)

\* fetch resolves with the status of the transcription answer
FetchResolves(r, status) ==
  /\ alive /\ pc[r] = "fetch"
  /\ answer' = [answer EXCEPT ![r] = status]
  /\ Goes(r, IF status = 200 THEN "dataJson" ELSE "errorJson", messages[r], i[r],
          <<>>, <<>>)
  /\ UNCHANGED <<kind, parsed, files, alive, overlap, codecVars, uiVars, voiceVars, execVars>>

\* fetch rejects, or reading the body of the answer as JSON rejects
TranscriptionRejects(r) ==
  /\ alive /\ pc[r] \in {"fetch", "dataJson", "errorJson"}
  /\ kind[r] = "transcript"
  /\ Fails(r, messages[r], i[r], << Event(0, "transcription", "fail", Undefined) >>)
  /\ UNCHANGED <<kind, answer, parsed, files, overlap, codecVars, uiVars, voiceVars, execVars>>

\* the body of an answer that is not OK is read: it is sent with the status
\* of the answer
ErrorBodyResolves(r) ==
  /\ alive /\ pc[r] = "errorJson"
  /\ Goes(r, "done", messages[r], i[r], <<>>,
          << Sent(answer[r], [error |-> "deepgram"]) >>)
  /\ UNCHANGED <<kind, answer, parsed, files, alive, overlap, codecVars, uiVars, voiceVars, execVars>>

\* a turn without the transcript
DataBodyDropsTranscript(r, transcript) ==
  /\ alive /\ pc[r] = "dataJson"
  /\ IF ThrowsOnRead(transcript)
     THEN /\ Fails(r, messages[r], i[r], << Thrown(r, 0) >>)
          /\ UNCHANGED parsed
     ELSE /\ parsed' = [parsed EXCEPT ![r] = transcript]
          /\ Loop(r, Arr(<< Obj(Undefined, Undefined, Smile, Talking0) >>), 0, <<>>)
  /\ UNCHANGED <<kind, answer, files, overlap, codecVars, uiVars, voiceVars, execVars>>

\* the body of an OK answer is read: one turn with the transcript as text
DataBodyResolves(r, transcript) ==
  /\ alive /\ pc[r] = "dataJson"
  /\ IF ThrowsOnRead(transcript)
     THEN /\ Fails(r, messages[r], i[r], << Thrown(r, 0) >>)
          /\ UNCHANGED parsed
     ELSE /\ parsed' = [parsed EXCEPT ![r] = transcript]
          /\ Loop(r, Arr(<< Obj(Undefined, transcript, Smile, Talking0) >>), 0, <<>>)
  /\ UNCHANGED <<kind, answer, files, overlap, codecVars, uiVars, voiceVars, execVars>>

(***************************************************************************)
(* The enrichment of turn i[r], common to both routes.                     *)
(***************************************************************************)
Mp3File(r) == FileName(r, i[r], "mp3")
WavFile(r) == FileName(r, i[r], "wav")
JsonFile(r) == FileName(r, i[r], "json")

\* voice.textToSpeech resolves: the mp3 is written; lipSyncMessage starts ffmpeg
TtsResolves(r) ==
  /\ alive /\ pc[r] = "tts"
  /\ files' = [files EXCEPT
       ![Mp3File(r)] = Mp3(r, i[r], TextOf(ElementAt(messages[r], i[r])))]
  /\ Goes(r, After("tts"), messages[r], i[r],
          << Resolved(r), Started(r, After("tts"), Undefined) >>, <<>>)
  /\ UNCHANGED <<kind, answer, parsed, alive, overlap, codecVars, uiVars, voiceVars, execVars>>

\* ffmpeg without -y: a wav that exists is kept
FfmpegKeepsWav(r) ==
  /\ alive /\ pc[r] = "ffmpeg"
  /\ files[Mp3File(r)] # Absent
  /\ files' = IF files[WavFile(r)] = Absent
              THEN [files EXCEPT ![WavFile(r)] = Wav(files[Mp3File(r)])]
              ELSE files
  /\ Goes(r, After("ffmpeg"), messages[r], i[r],
          << Resolved(r), Started(r, After("ffmpeg"), Undefined) >>, <<>>)
  /\ UNCHANGED <<kind, answer, parsed, alive, overlap, codecVars, uiVars, voiceVars, execVars>>

\* ffmpeg exits with 0: the wav is written from the mp3; rhubarb is started
FfmpegResolves(r) ==
  /\ alive /\ pc[r] = "ffmpeg"
  /\ files[Mp3File(r)] # Absent
  /\ files' = [files EXCEPT ![WavFile(r)] = Wav(files[Mp3File(r)])]
  /\ Goes(r, After("ffmpeg"), messages[r], i[r],
          << Resolved(r), Started(r, After("ffmpeg"), Undefined) >>, <<>>)
  /\ UNCHANGED <<kind, answer, parsed, alive, overlap, codecVars, uiVars, voiceVars, execVars>>

\* rhubarb exits with 0: the json is written from the wav; the mp3 is read
RhubarbResolves(r) ==
  /\ alive /\ pc[r] = "rhubarb"
  /\ files[WavFile(r)] # Absent
  /\ files' = [files EXCEPT ![JsonFile(r)] = Visemes(files[WavFile(r)])]
  /\ Goes(r, After("rhubarb"), messages[r], i[r],
          << Resolved(r), Started(r, After("rhubarb"), Undefined) >>, <<>>)
  /\ UNCHANGED <<kind, answer, parsed, alive, overlap, codecVars, uiVars, voiceVars, execVars>>

\* audioFileToBase64 resolves: message.audio is set; the json is read
ReadAudioResolves(r) ==
  /\ alive /\ pc[r] = "readAudio"
  /\ files[Mp3File(r)] # Absent
  /\ IF ThrowsOnWrite(ElementAt(messages[r], i[r]))
     THEN Fails(r, messages[r], i[r], << Resolved(r), Thrown(r, i[r]) >>)
     ELSE /\ Goes(r, After("readAudio"),
                  SetProp(messages[r], i[r], "audio", Base64(files[Mp3File(r)])), i[r],
                  << Resolved(r), Started(r, After("readAudio"), Undefined) >>, <<>>)
          /\ alive' = alive
  /\ UNCHANGED <<kind, answer, parsed, files, overlap, codecVars, uiVars, voiceVars, execVars>>

\* the json of the first turn is read for every turn
ReadJsonOfFirst(r) ==
  /\ alive /\ pc[r] = "readJson"
  /\ files[FileName(r, 0, "json")] # Absent
  /\ Loop(r, SetProp(messages[r], i[r], "lipsync", Cues(files[FileName(r, 0, "json")])),
          NextIndex(i[r]), << Resolved(r) >>)
  /\ UNCHANGED <<kind, answer, parsed, files, overlap, codecVars, uiVars, voiceVars, execVars>>

\* readJsonTranscript resolves: message.lipsync is set; the loop goes on
ReadJsonResolves(r) ==
  /\ alive /\ pc[r] = "readJson"
  /\ files[JsonFile(r)] # Absent
  /\ Loop(r, SetProp(messages[r], i[r], "lipsync", Cues(files[JsonFile(r)])),
          NextIndex(i[r]), << Resolved(r) >>)
  /\ UNCHANGED <<kind, answer, parsed, files, overlap, codecVars, uiVars, voiceVars, execVars>>

\* the awaited stage of the turn rejects: the synthesizer fails, a tool exits
\* with an error, a file cannot be read
StageRejects(r) ==
  /\ alive /\ pc[r] \in {"tts", "ffmpeg", "rhubarb", "readAudio", "readJson"}
  /\ Fails(r, messages[r], i[r], << Rejected(r) >>)
  /\ UNCHANGED <<kind, answer, parsed, files, overlap, codecVars, uiVars, voiceVars, execVars>>

Contents == IF overlap THEN ShortContents ELSE AllContents

Next ==
  \/ \E r \in Reqs : ChatArrives(r)
  \/ \E r \in Reqs : CompletionRejects(r)
  \/ \E r \in Reqs : \E content \in Contents : CompletionResolves(r, content)
  \/ \E r \in Reqs : \E hasFile \in BOOLEAN : TranscriptArrives(r, hasFile)
  \/ \E r \in Reqs : \E status \in DeepgramStatuses : FetchResolves(r, status)
  \/ \E r \in Reqs : TranscriptionRejects(r)
  \/ \E r \in Reqs : ErrorBodyResolves(r)
  \/ \E r \in Reqs : \E transcript \in DeepgramBodies : DataBodyResolves(r, transcript)
  \/ \E r \in Reqs : TtsResolves(r)
  \/ \E r \in Reqs : FfmpegResolves(r)
  \/ \E r \in Reqs : RhubarbResolves(r)
  \/ \E r \in Reqs : ReadAudioResolves(r)
  \/ \E r \in Reqs : ReadJsonResolves(r)
  \/ \E r \in Reqs : StageRejects(r)

\* requests follow one another
Spec == Init /\ [][Next]_vars

\* requests overlap
SpecOverlap == InitOverlap /\ [][Next]_vars


(***************************************************************************)
(* POST /rag: queryPinecone, summarizeResults.                             *)
(***************************************************************************)
\* a match of the index query, with or without its metadata
Match == [t |-> "object", metadata |-> [text |-> Hi]]
BareMatch == [t |-> "object", metadata |-> Undefined]

\* what queryResult.matches can be
MatchLists == { Arr(<<>>), Arr(<< Match >>), Arr(<< Match, Match >>),
                Arr(<< Match, BareMatch >>), Undefined }

\* what response.choices[0].message.content can be
Summaries == { Hi, Bye, Null }

\* results.map(r => r.metadata.text) throws
MapThrows(results) ==
  \E j \in 1..Len(results.items) : results.items[j].metadata = Undefined

\* the catch of summarizeResults returns this text
ErrorSummary == Str(<<"E", "r", "r", "o", "r">>)

\* the request arrives, with or without a message in its body
RagArrives(r, hasMessage) ==
  /\ MayArrive(r)
  /\ IF hasMessage
     THEN Arrives(r, "rag", "embedding", <<>>)
     ELSE Arrives(r, "rag", "done",
                  << Sent(400, [error |-> "Message is required"]) >>)

\* from const results = ... on, with the value queryPinecone returned
RagResults(r, results, evs) ==
  /\ parsed' = [parsed EXCEPT ![r] = results]
  /\ IF results = Undefined \/ (Len(results.items) > 0 /\ MapThrows(results))
     THEN Goes(r, "done", messages[r], i[r], evs \o << Thrown(r, 0) >>,
               << Sent(500, [error |-> "Internal server error"]) >>)
     ELSE IF Len(results.items) > 0
          THEN Goes(r, "summary", messages[r], i[r],
                    evs \o << Event(0, "summary", "start", Undefined) >>, <<>>)
          ELSE Goes(r, "done", messages[r], i[r], evs, <<>>)

\* openai.embeddings.create resolves: index.query is awaited
EmbeddingResolves(r) ==
  /\ alive /\ pc[r] = "embedding"
  /\ Goes(r, "query", messages[r], i[r],
          << Event(0, "embedding", "ok", Undefined),
             Event(0, "query", "start", Undefined) >>, <<>>)
  /\ UNCHANGED <<kind, answer, parsed, files, alive, overlap, codecVars, uiVars, voiceVars, execVars>>

\* index.query resolves: queryPinecone returns queryResult.matches
QueryResolves(r, matches) ==
  /\ alive /\ pc[r] = "query"
  /\ RagResults(r, matches, << Event(0, "query", "ok", Undefined) >>)
  /\ UNCHANGED <<kind, answer, files, alive, overlap, codecVars, uiVars, voiceVars, execVars>>

\* the embedding or the query fails: the catch of queryPinecone returns []
SearchFails(r) ==
  /\ alive /\ pc[r] \in {"embedding", "query"}
  /\ RagResults(r, Arr(<<>>), << Event(0, pc[r], "fail", Undefined) >>)
  /\ UNCHANGED <<kind, answer, files, alive, overlap, codecVars, uiVars, voiceVars, execVars>>

\* the completion of summarizeResults resolves: res.send(summary)
SummaryResolves(r, summary) ==
  /\ alive /\ pc[r] = "summary"
  /\ Goes(r, "done", messages[r], i[r], << Event(0, "summary", "ok", Undefined) >>,
          << Sent(200, summary) >>)
  /\ UNCHANGED <<kind, answer, parsed, files, alive, overlap, codecVars, uiVars, voiceVars, execVars>>

\* the completion fails: the catch of summarizeResults returns its text
SummaryFails(r) ==
  /\ alive /\ pc[r] = "summary"
  /\ Goes(r, "done", messages[r], i[r], << Event(0, "summary", "fail", Undefined) >>,
          << Sent(200, ErrorSummary) >>)
  /\ UNCHANGED <<kind, answer, parsed, files, alive, overlap, codecVars, uiVars, voiceVars, execVars>>

\* a collaborator of the /rag request on r settles
RagSettles(r) ==
  \/ EmbeddingResolves(r)
  \/ \E matches \in MatchLists : QueryResolves(r, matches)
  \/ SearchFails(r)
  \/ \E summary \in Summaries : SummaryResolves(r, summary)
  \/ SummaryFails(r)

NextRag ==
  \/ \E r \in Reqs : \E hasMessage \in BOOLEAN : RagArrives(r, hasMessage)
  \/ \E r \in Reqs : EmbeddingResolves(r)
  \/ \E r \in Reqs : \E matches \in MatchLists : QueryResolves(r, matches)
  \/ \E r \in Reqs : SearchFails(r)
  \/ \E r \in Reqs : \E summary \in Summaries : SummaryResolves(r, summary)
  \/ \E r \in Reqs : SummaryFails(r)

\* /rag requests, overlapping or not; every collaborator settles
SpecRag ==
  /\ InitOverlap
  /\ [][NextRag]_vars
  /\ \A r \in Reqs : WF_vars(RagSettles(r))

(***************************************************************************)
(* execCommand and its caller lipSyncMessage.                              *)
(***************************************************************************)
\* the exit codes of a tool: 0, or an error
ExitCodes == {0, 1, 2}

\* what a tool writes to its standard output
Stdouts == {Empty, Hi}

\* the error exec passes to its callback: null when the tool exited with 0
ExecError(code) == IF code = 0 THEN Null ELSE [t |-> "error", code |-> code]

\* reject(e) and resolve(v) of a promise: they settle it when it is pending
\* and do nothing otherwise
Reject(p, e) == IF p.state = "pending" THEN [state |-> "rejected", value |-> e] ELSE p
Resolve(p, v) == IF p.state = "pending" THEN [state |-> "resolved", value |-> v] ELSE p

\* resolve before the test of the error
CallbackResolvesFirst(p, error, stdout) ==
  LET q == Resolve(p, stdout) IN IF error # Null THEN Reject(q, error) ELSE q

\* (error, stdout, stderr) => { if (error) reject(error); resolve(stdout); }
Callback(p, error, stdout) ==
  Resolve(IF error # Null THEN Reject(p, error) ELSE p, stdout)

\* execCommand(command): exec starts the tool, a new promise is returned
ExecCommand(command) ==
  /\ child' = [command |-> command, status |-> "running", code |-> 0, stdout |-> Empty]
  /\ promise' = Pending

\* lipSyncMessage(message) is called: ffmpeg is started and awaited
LipSyncMessage(message) ==
  /\ lipSync.at \in {"idle", "returned", "threw"}
  /\ ExecCommand("ffmpeg")
  /\ lipSync' = [at |-> "ffmpeg", message |-> message, exits |-> <<>>]
  /\ UNCHANGED <<serverVars, codecVars, uiVars, voiceVars>>

\* the tool exits: exec calls the callback
ChildExits(code, stdout) ==
  /\ child.status = "running"
  /\ child' = [child EXCEPT !.status = "exited", !.code = code, !.stdout = stdout]
  /\ promise' = Callback(promise, ExecError(code), stdout)
  /\ lipSync' = [lipSync EXCEPT !.exits = Append(@, code)]
  /\ UNCHANGED <<serverVars, codecVars, uiVars, voiceVars>>

\* the await of lipSyncMessage resumes with the settled promise: it throws,
\* starts rhubarb, or returns
AwaitResumes ==
  /\ lipSync.at \in {"ffmpeg", "rhubarb"}
  /\ promise.state # "pending"
  /\ IF promise.state = "rejected"
     THEN /\ lipSync' = [lipSync EXCEPT !.at = "threw"]
          /\ UNCHANGED <<child, promise>>
     ELSE IF lipSync.at = "ffmpeg"
          THEN /\ lipSync' = [lipSync EXCEPT !.at = "rhubarb"]
               /\ ExecCommand("rhubarb")
          ELSE /\ lipSync' = [lipSync EXCEPT !.at = "returned"]
               /\ UNCHANGED <<child, promise>>
  /\ UNCHANGED <<serverVars, codecVars, uiVars, voiceVars>>

NextExec ==
  \/ \E message \in 0..(MaxLen - 1) : LipSyncMessage(message)
  \/ \E code \in ExitCodes : \E stdout \in Stdouts : ChildExits(code, stdout)
  \/ AwaitResumes

SpecExec == Init /\ [][NextExec]_vars

(***************************************************************************)
(* audioFileToBase64: the bytes of a file, read and encoded for transport. *)
(***************************************************************************)
MaxBytes == 3

\* byte values of every bit pattern of the sextets
SampleBytes == {0, 77, 178, 255}

Artifacts == UNION { [1..n -> SampleBytes] : n \in 0..MaxBytes }

\* the alphabet of base64
Alphabet ==
  << "A", "B", "C", "D", "E", "F", "G", "H", "I", "J", "K", "L", "M",
     "N", "O", "P", "Q", "R", "S", "T", "U", "V", "W", "X", "Y", "Z",
     "a", "b", "c", "d", "e", "f", "g", "h", "i", "j", "k", "l", "m",
     "n", "o", "p", "q", "r", "s", "t", "u", "v", "w", "x", "y", "z",
     "0", "1", "2", "3", "4", "5", "6", "7", "8", "9", "+", "/" >>

Digit(n) == Alphabet[n + 1]

\* the bytes after the last whole group of three are dropped
RECURSIVE ToBase64Truncated(_)
ToBase64Truncated(bytes) ==
  IF Len(bytes) < 3 THEN <<>>
  ELSE << Digit(bytes[1] \div 4),
          Digit((bytes[1] % 4) * 16 + bytes[2] \div 16),
          Digit((bytes[2] % 16) * 4 + bytes[3] \div 64),
          Digit(bytes[3] % 64) >>
       \o ToBase64Truncated(SubSeq(bytes, 4, Len(bytes)))

\* data.toString("base64"): three bytes make four digits, a last group of
\* one or two bytes is padded with "="
RECURSIVE ToBase64(_)
ToBase64(bytes) ==
  CASE Len(bytes) = 0 -> <<>>
    [] Len(bytes) = 1 ->
         << Digit(bytes[1] \div 4), Digit((bytes[1] % 4) * 16), "=", "=" >>
    [] Len(bytes) = 2 ->
         << Digit(bytes[1] \div 4),
            Digit((bytes[1] % 4) * 16 + bytes[2] \div 16),
            Digit((bytes[2] % 16) * 4), "=" >>
    [] OTHER ->
         << Digit(bytes[1] \div 4),
            Digit((bytes[1] % 4) * 16 + bytes[2] \div 16),
            Digit((bytes[2] % 16) * 4 + bytes[3] \div 64),
            Digit(bytes[3] % 64) >>
         \o ToBase64(SubSeq(bytes, 4, Len(bytes)))

\* the value of a digit of the alphabet
Sextet(c) == CHOOSE n \in 0..63 : Alphabet[n + 1] = c

\* the decoding of the receiver: four digits make three bytes, a padded
\* group one or two
RECURSIVE FromBase64(_)
FromBase64(chars) ==
  IF Len(chars) < 4 THEN <<>>
  ELSE LET first == Sextet(chars[1]) * 4 + Sextet(chars[2]) \div 16
           rest == SubSeq(chars, 5, Len(chars))
       IN
       CASE chars[3] = "=" -> << first >>
         [] chars[4] = "=" ->
              << first, (Sextet(chars[2]) % 16) * 16 + Sextet(chars[3]) \div 4 >>
         [] OTHER ->
              << first,
                 (Sextet(chars[2]) % 16) * 16 + Sextet(chars[3]) \div 4,
                 (Sextet(chars[3]) % 4) * 64 + Sextet(chars[4]) >>
              \o FromBase64(rest)

\* a synthesized file is in the scratch directory
InitCodec ==
  /\ ServerStarts /\ overlap = FALSE /\ ProviderMounts /\ UIMounts /\ VoiceOff
  /\ ExecOff
  /\ artifact \in Artifacts
  /\ transport = <<>>
  /\ received = <<>>
  /\ codec = "stored"

\* audioFileToBase64(file) resolves
AudioFileToBase64 ==
  /\ codec = "stored"
  /\ transport' = ToBase64(artifact)
  /\ codec' = "encoded"
  /\ UNCHANGED <<artifact, received, serverVars, uiVars, voiceVars, execVars>>

\* the receiver of the response decodes the audio property of a turn
AudioDecoded ==
  /\ codec = "encoded"
  /\ received' = FromBase64(transport)
  /\ codec' = "decoded"
  /\ UNCHANGED <<artifact, transport, serverVars, uiVars, voiceVars, execVars>>

NextCodec ==
  \/ AudioFileToBase64
  \/ AudioDecoded

SpecCodec == InitCodec /\ [][NextCodec]_vars

(***************************************************************************)
(* The chat hook of the front end (ChatProvider): the queue of turns to    *)
(* play, the current message, the loading flag.                            *)
(***************************************************************************)
MaxReply == 2

\* the turns of the response to call c, n of them
Reply(c, n) == [k \in 1..n |-> [t |-> "turn", call |-> c, pos |-> k - 1]]

\* the new turns before the pending ones
SpreadInFront(q, resp) == resp \o q

\* [...messages, ...resp]
SpreadAppend(q, resp) == q \o resp

\* messages.slice(1)
Slice1(q) == IF Len(q) = 0 THEN <<>> ELSE Tail(q)

\* a render threw: without an error boundary React unmounts the tree
Mounted == \A c \in Calls : calls[c] # "crashed"

\* chat(message) is called, for the c-th time: loading is set, fetch is awaited
ChatCalled(c) ==
  /\ Mounted
  /\ calls[c] = "idle"
  /\ \A d \in Calls : d < c => calls[d] # "idle"
  /\ calls' = [calls EXCEPT ![c] = "fetch"]
  /\ loading' = TRUE
  /\ UNCHANGED <<queue, currentMessage, effectDue, sentTurns, playedTurns>>

\* fetch resolves: data.json() is awaited
FetchAnswered(c) ==
  /\ Mounted
  /\ calls[c] = "fetch"
  /\ calls' = [calls EXCEPT ![c] = "json"]
  /\ UNCHANGED <<queue, currentMessage, loading, effectDue, sentTurns, playedTurns,
                 pageVars, serverVars, codecVars, voiceVars, execVars>>

\* data.json() resolves with a body whose messages are n turns: they are
\* appended, loading is reset
ReplyAppended(c, n) ==
  /\ Mounted
  /\ calls[c] = "json"
  /\ calls' = [calls EXCEPT ![c] = "done"]
  /\ queue' = SpreadAppend(queue, Reply(c, n))
  /\ sentTurns' = sentTurns \o Reply(c, n)
  /\ loading' = FALSE
  /\ effectDue' = TRUE
  /\ UNCHANGED <<currentMessage, playedTurns, pageVars, serverVars, codecVars, voiceVars, execVars>>

\* data.json() resolves with a body whose messages cannot be spread (an
\* error body has none, /chat can send an object or a number): loading is
\* reset, the updater throws in the next render
ReplyNotIterable(c) ==
  /\ Mounted
  /\ calls[c] = "json"
  /\ calls' = [calls EXCEPT ![c] = "crashed"]
  /\ loading' = FALSE
  /\ UNCHANGED <<queue, currentMessage, effectDue, sentTurns, playedTurns,
                 pageVars, serverVars, codecVars, voiceVars, execVars>>

\* fetch or data.json() rejects (the backend is not reachable, the body is
\* not JSON): the promise of chat rejects
ChatThrows(c) ==
  /\ Mounted
  /\ calls[c] \in {"fetch", "json"}
  /\ calls' = [calls EXCEPT ![c] = "failed"]
  /\ UNCHANGED <<queue, currentMessage, loading, effectDue, sentTurns, playedTurns,
                 pageVars, serverVars, codecVars, voiceVars, execVars>>

\* onMessagePlayed()
MessagePlayed ==
  /\ Mounted
  /\ queue' = Slice1(queue)
  /\ playedTurns' = IF Len(queue) > 0
                    THEN Append(playedTurns, queue[1]) ELSE playedTurns
  /\ effectDue' = TRUE
  /\ UNCHANGED <<currentMessage, loading, calls, sentTurns, pageVars,
                 serverVars, codecVars, voiceVars, execVars>>

\* the current message is kept when the queue is empty
EffectKeepsLast ==
  /\ Mounted
  /\ effectDue
  /\ currentMessage' = IF Len(queue) > 0 THEN queue[1] ELSE currentMessage
  /\ effectDue' = FALSE
  /\ UNCHANGED <<queue, loading, calls, sentTurns, playedTurns, pageVars,
                 serverVars, codecVars, voiceVars, execVars>>

\* the effect on [messages] runs after the render
EffectRuns ==
  /\ Mounted
  /\ effectDue
  /\ currentMessage' = IF Len(queue) > 0 THEN queue[1] ELSE Null
  /\ effectDue' = FALSE
  /\ UNCHANGED <<queue, loading, calls, sentTurns, playedTurns, pageVars,
                 serverVars, codecVars, voiceVars, execVars>>

(***************************************************************************)
(* The page (UI): what calls chat().                                       *)
(***************************************************************************)
\* what sendMessage finds in the input
Inputs == {"text", "transcribe", "kb"}

\* a handler of a key or a button runs, in the closure of the last render
\* and after its effects
Handles == Mounted /\ ~ effectDue

\* if (!loading && !message)
MaySend == ~ loading /\ currentMessage \in {Undefined, Null}

\* sendMessage(), on Enter or on the Send button
SendMessage(c, input) ==
  /\ Handles
  /\ MaySend
  /\ enableFileOptions' = (input = "transcribe")
  /\ IF input = "kb"
     THEN /\ ~ ragSend
          /\ ragSend' = TRUE
          /\ UNCHANGED hookVars
     ELSE /\ ChatCalled(c)
          /\ UNCHANGED ragSend
  /\ UNCHANGED <<isUploading, serverVars, codecVars, voiceVars, execVars>>

\* the answer of /rag is read: chat("Please say this content:" + data)
RagAnswerSpoken(c) ==
  /\ ragSend
  /\ ragSend' = FALSE
  /\ ChatCalled(c)
  /\ UNCHANGED <<enableFileOptions, isUploading, serverVars, codecVars, voiceVars, execVars>>

\* the fetch of /rag rejects: the catch of sendMessage logs it
RagSendFails ==
  /\ Mounted
  /\ ragSend
  /\ ragSend' = FALSE
  /\ UNCHANGED <<hookVars, enableFileOptions, isUploading, serverVars, codecVars, voiceVars, execVars>>

\* downloadTextFile(content), from the end of a note session:
\* chat("Please say note taking is done successfully.")
DownloadTextFile(c) ==
  /\ ChatCalled(c)
  /\ UNCHANGED <<pageVars, serverVars, codecVars, voiceVars, execVars>>

\* handleSubmit(), on the Submit button, with a file selected
HandleSubmit ==
  /\ Handles
  /\ enableFileOptions /\ ~ isUploading
  /\ isUploading' = TRUE
  /\ UNCHANGED <<hookVars, ragSend, enableFileOptions, serverVars, codecVars, voiceVars, execVars>>

\* /transcript answered OK: the transcription is downloaded,
\* chat("Please say that Transcription successful!")
TranscriptionSpoken(c) ==
  /\ isUploading
  /\ isUploading' = FALSE
  /\ enableFileOptions' = FALSE
  /\ ChatCalled(c)
  /\ UNCHANGED <<ragSend, serverVars, codecVars, voiceVars, execVars>>

\* /transcript failed or answered not OK: alert, finally
TranscriptionFails ==
  /\ Mounted
  /\ isUploading
  /\ isUploading' = FALSE
  /\ UNCHANGED <<hookVars, ragSend, enableFileOptions, serverVars, codecVars, voiceVars, execVars>>

NextUi ==
  \/ \E c \in Calls : \E input \in Inputs : SendMessage(c, input)
  \/ \E c \in Calls : RagAnswerSpoken(c)
  \/ RagSendFails
  \/ \E c \in Calls : DownloadTextFile(c)
  \/ HandleSubmit
  \/ \E c \in Calls : TranscriptionSpoken(c)
  \/ TranscriptionFails
  \/ \E c \in Calls : FetchAnswered(c)
  \/ \E c \in Calls : \E n \in 0..MaxReply : ReplyAppended(c, n)
  \/ \E c \in Calls : ReplyNotIterable(c)
  \/ \E c \in Calls : ChatThrows(c)
  \/ MessagePlayed
  \/ EffectRuns

SpecUi == Init /\ [][NextUi]_vars

(***************************************************************************)
(* The voice button (UI.handleVoiceInput) and the note taking of its       *)
(* recognition handlers.  isNoting, noteContent and recognition are        *)
(* variables of the body of UI: every render makes new ones, and the       *)
(* handlers of a SpeechRecognition object keep those of the render that    *)
(* created the object.                                                     *)
(***************************************************************************)
MaxResults == 2

\* what a result event can carry as transcript
Transcripts ==
  { <<"N", "o", "t", "e", " ">>,
    <<"t", "a", "k", "e", " ", "n", "o", "t", "e", "s">>,
    <<"h", "i">> }

NoteWord == <<"n", "o", "t", "e">>
TakeNotesWords == <<"t", "a", "k", "e", " ", "n", "o", "t", "e", "s">>

\* text.toLowerCase()
ToLowerCase(text) ==
  [n \in 1..Len(text) |-> IF text[n] = "N" THEN "n" ELSE text[n]]

\* text.startsWith(prefix)
StartsWith(text, prefix) ==
  Len(text) >= Len(prefix) /\ SubSeq(text, 1, Len(prefix)) = prefix

\* text.indexOf(" ")
IndexOfSpace(text) ==
  IF \E n \in 1..Len(text) : text[n] = " "
  THEN (CHOOSE n \in 1..Len(text) :
          text[n] = " " /\ \A k \in 1..(n - 1) : text[k] # " ") - 1
  ELSE -1

\* text.substring(from)
Substring(text, from) == SubSeq(text, from + 1, Len(text))

\* text.trim()
Trim(text) ==
  LET inked == { n \in 1..Len(text) : text[n] # " " } IN
  IF inked = {} THEN <<>>
  ELSE SubSeq(text, CHOOSE n \in inked : \A k \in inked : n <= k,
                    CHOOSE n \in inked : \A k \in inked : n >= k)

Running(rec) == rec.status \in {"starting", "active", "stopping"}

\* a place for a new object: there is none, or one that is idle and that
\* no variable refers to
Free(s) ==
  \/ sessions[s].status = "none"
  \/ sessions[s].status = "idle" /\ recognition # s

\* a render: let recognition = null
Rendered(sess) == /\ recognition' = 0
                  /\ sessions' = sess

\* setListening(value)
SetListening(value, sess) ==
  /\ listening' = value
  /\ IF listening # value
     THEN Rendered(sess)
     ELSE /\ recognition' = recognition
          /\ sessions' = sess

\* recognition.stop()
Stop(rec) == IF rec.status \in {"starting", "active"}
             THEN [rec EXCEPT !.status = "stopping"] ELSE rec

\* recognition.start(); on an object that is not idle it throws
Start(rec) == IF rec.status = "idle" THEN [rec EXCEPT !.status = "starting"] ELSE rec

\* handleVoiceInput(), on the voice button
HandleVoiceInput ==
  /\ recognition = 0 => \E s \in Recs : Free(s)
  /\ LET s == IF recognition # 0 THEN recognition
              ELSE CHOOSE f \in Recs : Free(f) /\ \A g \in Recs : Free(g) => f <= g
         rec == IF recognition # 0 THEN sessions[s]
                ELSE [NoSession EXCEPT !.status = "idle"]
     IN /\ recognition' = s
        /\ sessions' = [sessions EXCEPT ![s] = IF listening THEN Stop(rec) ELSE Start(rec)]
  /\ UNCHANGED <<listening, inputValue, noteFile, serverVars, codecVars, uiVars, execVars>>

\* recognition.onstart
SessionStarts(s) ==
  /\ sessions[s].status = "starting"
  /\ SetListening(TRUE, [sessions EXCEPT ![s].status = "active"])
  /\ UNCHANGED <<inputValue, noteFile, serverVars, codecVars, uiVars, execVars>>

\* the variables of the handlers after recognition.onresult
Heard(rec, transcript, isFinal) ==
  IF /\ ~ rec.isNoting
     /\ \/ StartsWith(ToLowerCase(transcript), NoteWord)
        \/ StartsWith(ToLowerCase(transcript), TakeNotesWords)
  THEN [rec EXCEPT !.isNoting = TRUE,
                   !.noteContent = Substring(transcript, IndexOfSpace(transcript) + 1)]
  ELSE IF rec.isNoting /\ isFinal
       THEN [rec EXCEPT !.noteContent = @ \o <<" ">> \o transcript]
       ELSE rec

\* recognition.onresult
SessionHears(s, transcript, isFinal) ==
  /\ sessions[s].status \in {"active", "stopping"}
  /\ sessions[s].results < MaxResults
  /\ sessions' = [sessions EXCEPT
       ![s] = [Heard(@, transcript, isFinal) EXCEPT !.results = @ + 1]]
  /\ inputValue' = transcript
  /\ UNCHANGED <<listening, recognition, noteFile, serverVars, codecVars, uiVars, execVars>>

\* the content is kept for the next session
EndKeepsContent(rec) ==
  [rec EXCEPT !.status = "idle", !.results = 0, !.isNoting = FALSE]

\* the object and the variables of its handlers after recognition.onend
End(rec) ==
  [rec EXCEPT !.status = "idle", !.results = 0, !.isNoting = FALSE,
              !.noteContent = IF rec.isNoting THEN <<>> ELSE @]

\* recognition.onend: the session ended by itself, by an error or by stop()
SessionEnds(s) ==
  /\ Running(sessions[s])
  /\ SetListening(FALSE, [sessions EXCEPT ![s] = End(@)])
  /\ noteFile' = IF sessions[s].isNoting /\ Trim(sessions[s].noteContent) # <<>>
                 THEN Str(Trim(sessions[s].noteContent)) ELSE noteFile
  /\ UNCHANGED <<inputValue, serverVars, codecVars, uiVars, execVars>>

\* UI is rendered for another reason: loading, message, the file states
Rerenders ==
  /\ recognition # 0
  /\ Rendered(sessions)
  /\ UNCHANGED <<listening, inputValue, noteFile, serverVars, codecVars, uiVars, execVars>>

NextVoice ==
  \/ HandleVoiceInput
  \/ \E s \in Recs : SessionStarts(s)
  \/ \E s \in Recs : \E transcript \in Transcripts : \E isFinal \in BOOLEAN :
       SessionHears(s, transcript, isFinal)
  \/ \E s \in Recs : SessionEnds(s)
  \/ Rerenders

SpecVoice == Init /\ [][NextVoice]_vars

(***************************************************************************)
(* Vocabulary of the properties.                                           *)
(***************************************************************************)
EnrichmentStages == {"tts", "ffmpeg", "rhubarb", "readAudio", "readJson"}

Finished(r) == pc[r] \in {"done", "rejected"}

\* the responses of r that carry a messages payload
TurnResponses(r) ==
  { n \in 1..Len(responses[r]) : "messages" \in DOMAIN responses[r][n].body }

Payload(r, n) == responses[r][n].body.messages

\* positions of the log of r where an enrichment stage, or the handler's
\* code between two stages, failed
StageFailures(r) ==
  { n \in 1..Len(log[r]) :
      /\ log[r][n].ev = "fail"
      /\ \/ log[r][n].stage \in EnrichmentStages
         \/ log[r][n].stage = "handler" /\ n > 1 }

\* the stage whose failure ended the enrichment at position n of the log
FailedStage(r, n) ==
  IF log[r][n].stage = "handler" THEN log[r][n - 1].stage ELSE log[r][n].stage

\* the turns a payload exposes: the elements of a list, or the payload
\* itself when it is one turn object
TurnsOf(m) ==
  CASE m.t = "array" -> { m.items[j] : j \in 1..Len(m.items) }
    [] IsTurnObject(m) /\ m.text # Undefined -> { m }
    [] OTHER -> {}

Enriched(turn) ==
  /\ IsTurnObject(turn)
  /\ turn.audio # Undefined
  /\ turn.lipsync # Undefined

(***************************************************************************)
(* C1: for every request and every turn, each stage is invoked at most     *)
(* once, in the order synthesis, transcoding, viseme extraction, audio     *)
(* read-back, lipsync read-back, and a stage starts only after the stage   *)
(* before it has completed successfully for the same turn.                 *)
(***************************************************************************)
StageBefore(s) ==
  CASE s = "ffmpeg" -> "tts"
    [] s = "rhubarb" -> "ffmpeg"
    [] s = "readAudio" -> "rhubarb"
    [] s = "readJson" -> "readAudio"
    [] OTHER -> "none"

StagesOnceInOrder ==
  \A r \in Reqs : \A n \in 1..Len(log[r]) :
    (log[r][n].ev = "start" /\ log[r][n].stage \in EnrichmentStages) =>
      /\ \A n2 \in 1..Len(log[r]) :
           (/\ log[r][n2].ev = "start"
            /\ log[r][n2].stage = log[r][n].stage
            /\ log[r][n2].turn = log[r][n].turn) => n2 = n
      /\ log[r][n].stage # "tts" =>
           \E n0 \in 1..(n - 1) :
             /\ log[r][n0].ev = "ok"
             /\ log[r][n0].stage = StageBefore(log[r][n].stage)
             /\ log[r][n0].turn = log[r][n].turn

\* a request answered with two turns, each enriched by the five operations
TwoTurnsEnriched ==
  \E r \in Reqs :
    /\ TurnResponses(r) # {}
    /\ Len(log[r]) = 20
    /\ \A n \in 1..Len(log[r]) : log[r][n].ev # "fail"

(***************************************************************************)
(* C2: within one request at most one operation is in progress at any      *)
(* moment, and the synthesis of turn k+1 starts only when the lipsync      *)
(* read-back of turn k has completed; turn 0 is the first.                 *)
(***************************************************************************)
TurnsSequential ==
  \A r \in Reqs : \A n \in 1..Len(log[r]) :
    log[r][n].ev = "start" =>
      /\ n > 1 => log[r][n - 1].ev = "ok"
      /\ log[r][n].stage = "tts" =>
           IF log[r][n].turn = 0
           THEN n = 1
           ELSE /\ n > 1
                /\ log[r][n - 1].stage = "readJson"
                /\ log[r][n - 1].turn = log[r][n].turn - 1
      /\ log[r][n].stage # "tts" => (n > 1 /\ log[r][n - 1].turn = log[r][n].turn)

\* the synthesis of the third turn of a request is in progress
ThirdTurnStarted ==
  \E r \in Reqs : pc[r] = "tts" /\ i[r] = 2 /\ Len(log[r]) = 21

(***************************************************************************)
(* C3: the turns of a /chat response are the elements of the model-output  *)
(* list, in the same order, with the same text, facialExpression and       *)
(* animation.                                                              *)
(***************************************************************************)
IsList(v) == v.t = "array"

\* the list of the model output: the output itself, or its messages field
OutputList(v) == IF IsList(v) THEN v ELSE v.messages

HasOutputList(v) == IsList(v) \/ (IsTurnObject(v) /\ IsList(v.messages))

ResponsePreservesOrder ==
  \A r \in Reqs : \A n \in TurnResponses(r) :
    (kind[r] = "chat" /\ HasOutputList(parsed[r])) =>
      LET src == OutputList(parsed[r]).items
          out == Payload(r, n)
      IN /\ IsList(out)
         /\ Len(out.items) = Len(src)
         /\ \A j \in 1..Len(src) :
              /\ out.items[j].text = src[j].text
              /\ out.items[j].facialExpression = src[j].facialExpression
              /\ out.items[j].animation = src[j].animation

\* a /chat response with two turns of different texts
TwoDistinctTurnsSent ==
  \E r \in Reqs : \E n \in TurnResponses(r) :
    /\ kind[r] = "chat"
    /\ IsList(Payload(r, n))
    /\ Len(Payload(r, n).items) = 2
    /\ Payload(r, n).items[1].text # Payload(r, n).items[2].text

(***************************************************************************)
(* C4: a request in which a stage or a read-back failed for some turn      *)
(* sends no response that carries turns.                                   *)
(***************************************************************************)
AllOrNothing ==
  \A r \in Reqs : StageFailures(r) # {} => TurnResponses(r) = {}

\* the viseme extraction failed for the second turn, after the first turn
\* was enriched
SecondTurnFailed ==
  \E r \in Reqs : \E n \in StageFailures(r) :
    /\ log[r][n].turn = 1
    /\ log[r][n].stage = "rhubarb"
    /\ Enriched(messages[r].items[1])
    /\ Finished(r)

(***************************************************************************)
(* C5: a request in which an enrichment stage failed has received, when    *)
(* its handler is finished, exactly one response, an error that names the  *)
(* stage that failed.                                                      *)
(***************************************************************************)
StageFailureReported ==
  \A r \in Reqs : \A n \in StageFailures(r) :
    Finished(r) =>
      /\ Len(responses[r]) = 1
      /\ "error" \in DOMAIN responses[r][1].body
      /\ responses[r][1].body.error = FailedStage(r, n)

(***************************************************************************)
(* C6: every turn of every response with a messages payload has audio and  *)
(* lipsync, whatever the shape of the model output.                        *)
(***************************************************************************)
OnlyEnrichedTurnsSent ==
  \A r \in Reqs : \A n \in TurnResponses(r) :
    \A turn \in TurnsOf(Payload(r, n)) : Enriched(turn)


(***************************************************************************)
(* C7: the scratch files are named by the turn index alone.  Whatever      *)
(* audio or lipsync a response carries at turn i was produced from the     *)
(* text of turn i of some request; with two requests in flight it can be   *)
(* the text of the other request.                                          *)
(***************************************************************************)
ArtifactsKeyedByIndex ==
  \A r \in Reqs : \A n \in TurnResponses(r) :
    IsList(Payload(r, n)) =>
      \A j \in 1..Len(Payload(r, n).items) :
        LET turn == Payload(r, n).items[j] IN
        /\ turn.audio.base64.fmt = "mp3"
        /\ turn.audio.base64.turn = j - 1
        /\ turn.lipsync.mouthCues.from.from.fmt = "mp3"
        /\ turn.lipsync.mouthCues.from.from.turn = j - 1

\* a response whose turn i carries audio or lipsync produced from turn i of
\* another request
ForeignArtifactSent ==
  \E r \in Reqs : \E n \in TurnResponses(r) :
    /\ IsList(Payload(r, n))
    /\ \E j \in 1..Len(Payload(r, n).items) :
         LET turn == Payload(r, n).items[j] IN
         \/ turn.audio.base64.req # r /\ turn.audio.base64.turn = j - 1
         \/ /\ turn.lipsync.mouthCues.from.from.req # r
            /\ turn.lipsync.mouthCues.from.from.turn = j - 1

(***************************************************************************)
(* C8: a /chat response has at most three turns, and no stage is invoked   *)
(* for an element at position 3 or later.                                  *)
(***************************************************************************)
AtMostThreeTurns ==
  \A r \in Reqs :
    /\ \A n \in TurnResponses(r) :
         IsList(Payload(r, n)) => Len(Payload(r, n).items) <= MaxMessages
    /\ \A n \in 1..Len(log[r]) :
         log[r][n].stage \in EnrichmentStages => log[r][n].turn < MaxMessages

(***************************************************************************)
(* C9: every turn of every response has a facialExpression and an          *)
(* animation of the enumerations.                                          *)
(***************************************************************************)
EnumeratedValuesOnly ==
  \A r \in Reqs : \A n \in TurnResponses(r) :
    \A turn \in TurnsOf(Payload(r, n)) :
      /\ turn.facialExpression \in FacialExpressions
      /\ turn.animation \in Animations

(***************************************************************************)
(* C10: a /chat request whose model output is neither a list nor an object *)
(* whose messages field is a list sends no response with a messages        *)
(* payload.                                                                *)
(***************************************************************************)
UnrecognizedShapeRejected ==
  \A r \in Reqs :
    (kind[r] = "chat" /\ parsed[r] # Undefined /\ ~ HasOutputList(parsed[r])) =>
      TurnResponses(r) = {}


(***************************************************************************)
(* C11: a /chat request whose model output is not parseable, or is neither *)
(* a list nor a wrapper of a list, makes no collaborator call of the       *)
(* enrichment and writes no scratch file.                                  *)
(***************************************************************************)
\* the files of audios/ written for the request on r
WrittenBy(r) ==
  { f \in FileNames :
      \/ files[f].fmt = "mp3" /\ files[f].req = r
      \/ files[f].fmt = "wav" /\ files[f].from.req = r
      \/ files[f].fmt = "json" /\ files[f].from.from.req = r }

StageEvents(r) == { n \in 1..Len(log[r]) : log[r][n].stage \in EnrichmentStages }

NormalizationFailsFast ==
  \A r \in Reqs :
    (/\ kind[r] = "chat"
     /\ pc[r] \notin {"idle", "completion"}
     /\ ~ HasOutputList(parsed[r])) =>
      /\ StageEvents(r) = {}
      /\ WrittenBy(r) = {}


(***************************************************************************)
(* C12: for a list L of at most three valid turn objects, the model        *)
(* outputs L and {messages: L} are answered alike: with the turns of L, in *)
(* the order of L, as many as L has (none for the empty list).             *)
(***************************************************************************)
ValidTurn(e) ==
  /\ IsTurnObject(e)
  /\ e.text.t = "string" /\ Truthy(e.text)
  /\ e.facialExpression \in FacialExpressions
  /\ e.animation \in Animations

ValidList(l) ==
  /\ IsList(l)
  /\ Len(l.items) <= MaxMessages
  /\ \A j \in 1..Len(l.items) : ValidTurn(l.items[j])

\* the turns of a payload without what the enrichment added
Stripped(m) ==
  Arr([j \in 1..Len(m.items) |->
         [m.items[j] EXCEPT !.audio = Undefined, !.lipsync = Undefined]])

BareAndWrappedAgree ==
  \A r \in Reqs :
    (kind[r] = "chat" /\ pc[r] = "done" /\ HasOutputList(parsed[r])) =>
      LET L == OutputList(parsed[r]) IN
      (ValidList(L) /\ (parsed[r] = L \/ parsed[r] = Wrap(L))) =>
        /\ TurnResponses(r) = {1}
        /\ IsList(Payload(r, 1))
        /\ Stripped(Payload(r, 1)) = L

\* the wrapped empty list is answered with no turn
WrappedEmptyListAnswered ==
  \E r \in Reqs :
    /\ kind[r] = "chat"
    /\ parsed[r] = Wrap(Arr(<<>>))
    /\ TurnResponses(r) = {1}
    /\ Payload(r, 1) = Arr(<<>>)


(***************************************************************************)
(* C13: the synthesizer is never called with a missing or empty text, and  *)
(* no turn with a missing or empty text is sent.                           *)
(***************************************************************************)
NonEmptyText(v) == v.t = "string" /\ Truthy(v)

NonEmptyTextOnly ==
  \A r \in Reqs :
    /\ \A n \in 1..Len(log[r]) :
         (log[r][n].stage = "tts" /\ log[r][n].ev = "start") =>
           NonEmptyText(log[r][n].arg)
    /\ \A n \in TurnResponses(r) :
         \A turn \in TurnsOf(Payload(r, n)) : NonEmptyText(turn.text)

AudioOrigin(turn) == turn.audio.base64.req
LipsyncOrigin(turn) == turn.lipsync.mouthCues.from.from.req

NoStaleArtifacts ==
  \A r \in Reqs : \A n \in TurnResponses(r) :
    IsList(Payload(r, n)) =>
      /\ kind[r] = "chat" => Stripped(Payload(r, n)) = Unwrap(parsed[r])
      /\ \A j \in 1..Len(Payload(r, n).items) :
           /\ AudioOrigin(Payload(r, n).items[j]) = r
           /\ LipsyncOrigin(Payload(r, n).items[j]) = r

\* a request is answered with a turn while the three files of an earlier
\* request are in the scratch directory
AnsweredOverEarlierFiles ==
  \E r \in Reqs : \E n \in TurnResponses(r) :
    /\ IsList(Payload(r, n))
    /\ Len(Payload(r, n).items) > 0
    /\ \E k \in 0..(MaxLen - 1) :
         /\ files[<<k, "mp3">>].fmt = "mp3" /\ files[<<k, "mp3">>].req = 0
         /\ files[<<k, "wav">>].fmt = "wav" /\ files[<<k, "wav">>].from.req = 0
         /\ files[<<k, "json">>].fmt = "json"
         /\ files[<<k, "json">>].from.from.req = 0

(***************************************************************************)
(* C16: a /transcript request that is answered with turns is answered      *)
(* with exactly one turn, whose text is the transcript; its enrichment is  *)
(* that of a one-turn /chat response: the same stages, in the same order,  *)
(* on the files of index 0.                                                *)
(***************************************************************************)
\* the log without the arguments of the calls
Trace(l) == [n \in 1..Len(l) |-> <<l[n].turn, l[n].stage, l[n].ev>>]

\* the enrichment of one turn, of index 0
OneTurnTrace ==
  [n \in 1..(2 * Len(Stages)) |->
     <<0, Stages[(n + 1) \div 2], IF n % 2 = 1 THEN "start" ELSE "ok">>]

OneTurnPayload(m) == IsList(m) /\ Len(m.items) = 1

TranscriptIsOneTurnChat ==
  \A r \in Reqs :
    /\ (kind[r] = "transcript" /\ TurnResponses(r) # {}) =>
         /\ TurnResponses(r) = {1}
         /\ OneTurnPayload(Payload(r, 1))
         /\ Payload(r, 1).items[1].text = parsed[r]
    /\ \A n \in TurnResponses(r) :
         OneTurnPayload(Payload(r, n)) =>
           /\ Trace(log[r]) = OneTurnTrace
           /\ Payload(r, n).items[1].audio.base64.turn = 0
           /\ Payload(r, n).items[1].lipsync.mouthCues.from.from.turn = 0

\* a transcript that is not empty is answered
TranscriptAnswered ==
  \E r \in Reqs :
    /\ kind[r] = "transcript"
    /\ TurnResponses(r) = {1}
    /\ parsed[r] = Hi
    /\ Payload(r, 1).items[1].text = Hi

(***************************************************************************)
(* C19: when requests follow one another, the audio of turn i of a         *)
(* response is the encoding of the file synthesized from the text of turn  *)
(* i in this request, and its lipsync is made from the transcoding of that *)
(* same file.                                                              *)
(***************************************************************************)
AudioAndLipsyncOfOwnText ==
  \A r \in Reqs : \A n \in TurnResponses(r) :
    IsList(Payload(r, n)) =>
      \A j \in 1..Len(Payload(r, n).items) :
        LET turn == Payload(r, n).items[j] IN
        /\ turn.audio = Base64(Mp3(r, j - 1, turn.text))
        /\ turn.lipsync = Cues(Visemes(Wav(turn.audio.base64)))

\* a second turn, of another text than the first, is sent with its audio
SecondTurnOwnAudio ==
  \E r \in Reqs : \E n \in TurnResponses(r) :
    /\ IsList(Payload(r, n))
    /\ Len(Payload(r, n).items) >= 2
    /\ Payload(r, n).items[1].text # Payload(r, n).items[2].text
    /\ Payload(r, n).items[2].audio.base64.text = Payload(r, n).items[2].text


(***************************************************************************)
(* C20: a /transcript request without an uploaded file, or whose           *)
(* transcription answer is not OK, is answered exactly once, with an       *)
(* error: status 400 without a file, the status of the transcription       *)
(* answer otherwise; no enrichment stage is called for it and no scratch   *)
(* file is written.                                                        *)
(***************************************************************************)
\* the handler returned before the transcription call
NoFileUploaded(r) ==
  kind[r] = "transcript" /\ pc[r] = "done" /\ answer[r] = 0 /\ log[r] = <<>>

\* the transcription collaborator answered with a status that is not OK
NotOkAnswered(r) ==
  kind[r] = "transcript" /\ Finished(r) /\ answer[r] \notin {0, 200}

RefusedTranscriptFrame ==
  \A r \in Reqs :
    /\ NoFileUploaded(r) =>
         Len(responses[r]) = 1 /\ responses[r][1].status = 400
    /\ NotOkAnswered(r) =>
         Len(responses[r]) = 1 /\ responses[r][1].status = answer[r]
    /\ (NoFileUploaded(r) \/ NotOkAnswered(r)) =>
         StageEvents(r) = {} /\ WrittenBy(r) = {}


(***************************************************************************)
(* C17: decoding what audioFileToBase64 returned for a file gives the      *)
(* bytes of the file, whatever they are.                                   *)
(***************************************************************************)
Base64RoundTrip ==
  /\ codec \in {"encoded", "decoded"} =>
       Len(transport) = 4 * ((Len(artifact) + 2) \div 3)
  /\ codec = "decoded" => received = artifact

\* a file whose last group is padded has been decoded
PaddedArtifactDecoded ==
  /\ codec = "decoded"
  /\ Len(artifact) = 2
  /\ transport[4] = "="
  /\ received = artifact

(***************************************************************************)
(* C18: the queue of the front end is first-in first-out: the turns of a   *)
(* response are appended at its end, as one block in the order of the      *)
(* response, also when chat calls overlap, and onMessagePlayed removes its *)
(* head; the turns removed and the turns pending are, in this order, the   *)
(* turns received.                                                         *)
(***************************************************************************)
PlaybackFifo ==
  /\ playedTurns \o queue = sentTurns
  /\ \A a, b \in 1..Len(queue) :
       (a < b /\ queue[a].call = queue[b].call) =>
         queue[b].pos = queue[a].pos + (b - a)

\* the second call was answered before the first, and turns of both were
\* queued; one has been played
OverlappingRepliesQueued ==
  /\ playedTurns # <<>>
  /\ queue # <<>>
  /\ \E a, b \in 1..Len(sentTurns) :
       a < b /\ sentTurns[a].call = 2 /\ sentTurns[b].call = 1


(***************************************************************************)
(* C21: every /rag request is answered, exactly once: never twice, and     *)
(* once its collaborators have settled it has its response, also when the  *)
(* search found nothing or failed.                                         *)
(***************************************************************************)
RagAlwaysAnswered ==
  \A r \in Reqs :
    /\ [](Len(responses[r]) <= 1)
    /\ (kind[r] = "rag" /\ pc[r] # "idle") ~> (Len(responses[r]) = 1)


(***************************************************************************)
(* C22: once the effect has run after a change of the queue, the current   *)
(* message is the head of the queue, or null when the queue is empty; it   *)
(* is then no turn that onMessagePlayed has removed.                       *)
(***************************************************************************)
Removed == { playedTurns[n] : n \in 1..Len(playedTurns) }

CurrentMessageIsHead ==
  ~ effectDue =>
    /\ currentMessage = IF Len(queue) > 0 THEN queue[1] ELSE Null
    /\ currentMessage \notin Removed

\* the last turn was played and the current message is cleared
ClearedAfterLastTurn ==
  /\ ~ effectDue
  /\ playedTurns # <<>>
  /\ queue = <<>>
  /\ currentMessage = Null

(***************************************************************************)
(* C23: loading is true as long as a call of chat() is in flight, and      *)
(* false once every call has ended, however it ended.                      *)
(***************************************************************************)
ChatsInFlight == { c \in Calls : calls[c] \in {"fetch", "json"} }

LoadingTracksCalls == loading <=> ChatsInFlight # {}

(***************************************************************************)
(* C24: at most one chat request is in flight, and chat() is never called  *)
(* while loading is set or a current message is set.                       *)
(***************************************************************************)
OneChatAtATime ==
  /\ [](Cardinality(ChatsInFlight) <= 1)
  /\ [][\A c \in Calls :
          (calls[c] = "idle" /\ calls'[c] = "fetch") => MaySend]_vars


(***************************************************************************)
(* C25: the voice button pressed while listening stops the session that    *)
(* runs; pressed while nothing runs it starts one session; never more      *)
(* than one session runs.                                                  *)
(***************************************************************************)
RunningSessions == { s \in Recs : Running(sessions[s]) }

VoiceButtonToggles ==
  /\ [][(HandleVoiceInput /\ listening) =>
          \A s \in RunningSessions : sessions'[s].status = "stopping"]_vars
  /\ [][(HandleVoiceInput /\ ~ listening /\ RunningSessions = {}) =>
          \E s \in Recs : sessions'[s].status = "starting"]_vars
  /\ [](Cardinality(RunningSessions) <= 1)

(***************************************************************************)
(* C26: a note file is downloaded only at the end of a session that is in  *)
(* note mode with a content that is not blank; note mode is entered only   *)
(* by a result that starts with "note" or "take notes"; after the end of   *)
(* a session its note mode is off and its content empty, so that the next  *)
(* session starts from nothing.                                            *)
(***************************************************************************)
NotesOnlyFromOwnSession ==
  /\ [](\A s \in Recs :
          ~ Running(sessions[s]) =>
            ~ sessions[s].isNoting /\ sessions[s].noteContent = <<>>)
  /\ [][noteFile' # noteFile =>
          \E s \in Recs :
            /\ Running(sessions[s]) /\ ~ Running(sessions'[s])
            /\ sessions[s].isNoting
            /\ Trim(sessions[s].noteContent) # <<>>
            /\ noteFile' = Str(Trim(sessions[s].noteContent))]_vars
  /\ [][\A s \in Recs :
          (~ sessions[s].isNoting /\ sessions'[s].isNoting) =>
            \/ StartsWith(ToLowerCase(inputValue'), NoteWord)
            \/ StartsWith(ToLowerCase(inputValue'), TakeNotesWords)]_vars

\* a second note was downloaded: a session in note mode ended after an
\* earlier session had downloaded another note
SecondNoteDownloaded ==
  /\ noteFile = Str(<<"h", "i">>)
  /\ \E s \in Recs : sessions[s].isNoting /\ sessions[s].results = 1


(***************************************************************************)
(* C27: the promise of execCommand settles once: it is pending while the   *)
(* tool runs, rejected with the error when the tool exited with an error,  *)
(* resolved with the standard output when it exited with 0, and it never   *)
(* changes afterwards; lipSyncMessage goes on to the next stage only       *)
(* after a tool that exited with 0.                                        *)
(***************************************************************************)
ExecSettlesOnce ==
  /\ [](child.status = "running" => promise.state = "pending")
  /\ [](child.status = "exited" =>
          promise = IF child.code # 0
                    THEN [state |-> "rejected", value |-> ExecError(child.code)]
                    ELSE [state |-> "resolved", value |-> child.stdout])
  /\ [](lipSync.at = "rhubarb" => Len(lipSync.exits) >= 1 /\ lipSync.exits[1] = 0)
  /\ [](lipSync.at = "returned" => lipSync.exits = <<0, 0>>)
  /\ [][promise.state # "pending" =>
          promise' = promise \/ (promise' = Pending /\ child'.status = "running")]_vars

\* rhubarb failed after ffmpeg succeeded, and lipSyncMessage threw
SecondToolFailed ==
  /\ lipSync.at = "threw"
  /\ lipSync.exits = <<0, 2>>
  /\ promise.state = "rejected"

====
